---- MODULE Spec2Model ----
(***************************************************************************)
(* The Author/Book catalog of backend/core/books: the two tables of        *)
(* models.py, the REST handlers that viewsets.py and serializers.py        *)
(* declare (list, retrieve, create, update, partial update, destroy for    *)
(* each model) and the fetch_data management command.                      *)
(*                                                                         *)
(* Text is a sequence of one-character strings.  A date is a small         *)
(* positive number, NoDate is the SQL NULL of Author.birth_date.  A        *)
(* request payload is a record that holds only the keys the client sent.   *)
(***************************************************************************)
EXTENDS Integers, Sequences, FiniteSets, TLC

\* Largest primary key the model hands out or loads, per table.
MaxAuthorId == 2
MaxBookId == 2

\* models.py: CharField(max_length=...)
NameMaxLen == 255
CountryMaxLen == 100
TitleMaxLen == 255
IsbnMaxLen == 13

\* Author.birth_date is null=True: the stored NULL.
NoDate == 0

VARIABLES
    authors,     \* rows of the Author table: [id, name, birth_date, country]
    books,       \* rows of the Book table: [id, title, author, published_date, isbn]
    authorSeq,   \* largest Author id ever used (AUTOINCREMENT sequence)
    bookSeq,     \* largest Book id ever used
    resp,        \* the response (or command outcome) of the last operation
    pc,          \* fetch_data: position of the running command
    file,        \* fetch_data: the parsed JSON document
    created,     \* fetch_data: keys of the local dict `authors`
    idx,         \* fetch_data: position in the list being inserted
    before,      \* history: the tables as they were when the operation in resp began
    inflight     \* Book create requests that passed validation and have not written yet

vars ==
    <<authors, books, authorSeq, bookSeq, resp, pc, file, created, idx, before, inflight>>
store == <<authors, books, authorSeq, bookSeq>>
loader == <<pc, file, created, idx>>

----------------------------------------------------------------------------
(* Text *)

Code(c) ==
    CASE c = " " -> 32
      [] c = "1" -> 49
      [] c = "2" -> 50
      [] c = "A" -> 65
      [] c = "a" -> 97
      [] c = "b" -> 98
      [] c = "z" -> 122

LowerChar(c) == IF c = "A" THEN "a" ELSE c

Lower(s) == [i \in 1..Len(s) |-> LowerChar(s[i])]

IsSpace(c) == c = " "

\* str.strip()
Strip(s) ==
    LET keep == {i \in 1..Len(s) : ~IsSpace(s[i])}
    IN  IF keep = {} THEN <<>>
        ELSE LET lo == CHOOSE i \in keep : \A j \in keep : i <= j
                 hi == CHOOSE i \in keep : \A j \in keep : j <= i
             IN  SubSeq(s, lo, hi)

\* str.split(): the maximal runs of non-blank characters, in order.
RECURSIVE Split(_)
Split(s) ==
    IF s = <<>> THEN <<>>
    ELSE IF IsSpace(Head(s)) THEN Split(Tail(s))
    ELSE LET stops == {i \in 1..Len(s) : IsSpace(s[i])}
             n == IF stops = {} THEN Len(s)
                  ELSE (CHOOSE i \in stops : \A j \in stops : i <= j) - 1
         IN  <<SubSeq(s, 1, n)>> \o Split(SubSeq(s, n + 1, Len(s)))

\* SQL `field LIKE %term%`, case-insensitive (the icontains lookup).
IContains(field, term) ==
    \E i \in 0..(Len(field) - Len(term)) :
        Lower(SubSeq(field, i + 1, i + Len(term))) = Lower(term)

\* Text in the column's binary collation.
StrLess(s, t) ==
    \E i \in 1..(Len(t)) :
        /\ i <= Len(s) + 1
        /\ \A j \in 1..(i - 1) : s[j] = t[j]
        /\ (i = Len(s) + 1 \/ Code(s[i]) < Code(t[i]))


----------------------------------------------------------------------------
(* Rows, and the queries the handlers issue *)

AuthorIds == {a.id : a \in authors}
BookIds == {b.id : b \in books}
AuthorRow(id) == CHOOSE a \in authors : a.id = id
BookRow(id) == CHOOSE b \in books : b.id = id

Override(base, upd) ==
    [k \in DOMAIN base \cup DOMAIN upd |->
        IF k \in DOMAIN upd THEN upd[k] ELSE base[k]]

Has(p, k) == k \in DOMAIN p

\* All the arrangements of a finite set as a sequence.
Perms(S) ==
    {f \in [1..Cardinality(S) -> S] : \A x \in S : \E i \in DOMAIN f : f[i] = x}

\* ORDER BY: every arrangement of S in which no row comes before a row that
\* Less puts ahead of it; rows the key does not separate come in any order.
SortedBy(S, Less(_, _)) ==
    {f \in Perms(S) : \A i, j \in DOMAIN f : i < j => ~Less(f[j], f[i])}

----------------------------------------------------------------------------
(* serializers.py: the wire shapes *)

BookSummarySerializer(b) ==
    [id |-> b.id, title |-> b.title, published_date |-> b.published_date,
     isbn |-> b.isbn]

TitleLess(x, y) == StrLess(x.title, y.title)

\* The shapes AuthorSerializer can produce for a row, read against the Book
\* table bks: `books` follows Book.Meta.ordering.
AuthorSerializer(a, bks) ==
    {[id |-> a.id, name |-> a.name, birth_date |-> a.birth_date,
      country |-> a.country,
      books |-> [i \in DOMAIN ord |-> BookSummarySerializer(ord[i])]]
        : ord \in SortedBy({b \in bks : b.author = a.id}, TitleLess)}

\* The shapes BookSerializer can produce for a row, read against the tables
\* auths and bks: `author` is the nested Author shape, `author_id` is
\* write-only.
BookSerializer(b, auths, bks) ==
    {[id |-> b.id, title |-> b.title, author |-> s,
      published_date |-> b.published_date, isbn |-> b.isbn]
        : s \in AuthorSerializer(CHOOSE a \in auths : a.id = b.author, bks)}

----------------------------------------------------------------------------
(* serializers.py: validation of a write payload.  `partial` is PATCH;     *)
(* `self` is the id of the row being updated, 0 on create.  The result is  *)
(* the set of <<field, code>> errors and the validated attributes.         *)

\* A rest_framework CharField: strip, then blank and max_length.
CharErrors(p, k, partial, required, allowBlank, maxLen) ==
    IF ~Has(p, k) THEN (IF required /\ ~partial THEN {<<k, "required">>} ELSE {})
    ELSE IF Strip(p[k]) = <<>> THEN (IF allowBlank THEN {} ELSE {<<k, "blank">>})
    ELSE IF Len(Strip(p[k])) > maxLen THEN {<<k, "max_length">>}
    ELSE {}

RequiredErrors(p, k, partial) ==
    IF ~Has(p, k) /\ ~partial THEN {<<k, "required">>} ELSE {}

AuthorErrors(p, partial) ==
    CharErrors(p, "name", partial, TRUE, FALSE, NameMaxLen)
        \cup CharErrors(p, "country", partial, FALSE, TRUE, CountryMaxLen)

\* Text fields taken as sent (trim_whitespace off).
AuthorDataRaw(p) == [k \in DOMAIN p \cap {"name", "birth_date", "country"} |-> p[k]]

\* `books` is read_only: whatever the payload holds under it is dropped.
AuthorData(p) ==
    [k \in DOMAIN p \cap {"name", "birth_date", "country"} |->
        IF k = "birth_date" THEN p[k] ELSE Strip(p[k])]

\* An author_id field that is a plain integer: nothing is looked up.
AuthorIdUnchecked(p, partial) == RequiredErrors(p, "author_id", partial)

\* PrimaryKeyRelatedField(queryset=Author.objects.all(), source='author')
AuthorIdErrors(p, partial) ==
    IF ~Has(p, "author_id") THEN RequiredErrors(p, "author_id", partial)
    ELSE IF p.author_id \notin AuthorIds THEN {<<"author_id", "does_not_exist">>}
    ELSE {}

\* A serializer that declares isbn itself and so carries no UniqueValidator.
IsbnUnvalidated(p, self) == {}

\* The UniqueValidator that ModelSerializer derives from isbn's unique=True;
\* on update the row itself is excluded.
IsbnUniqueErrors(p, self) ==
    IF Has(p, "isbn") /\ (\E b \in books : b.isbn = Strip(p.isbn) /\ b.id # self)
    THEN {<<"isbn", "unique">>}
    ELSE {}

BookErrors(p, partial, self) ==
    CharErrors(p, "title", partial, TRUE, FALSE, TitleMaxLen)
        \cup AuthorIdErrors(p, partial)
        \cup RequiredErrors(p, "published_date", partial)
        \cup CharErrors(p, "isbn", partial, TRUE, FALSE, IsbnMaxLen)
        \cup IsbnUniqueErrors(p, self)

BookData(p) ==
    [k \in {IF f = "author_id" THEN "author" ELSE f :
                f \in DOMAIN p \cap {"title", "author_id", "published_date", "isbn"}} |->
        CASE k = "author" -> p.author_id
          [] k = "published_date" -> p.published_date
          [] OTHER -> Strip(p[k])]

----------------------------------------------------------------------------
(* models.py: what the tables accept *)

\* A Book table whose isbn column is not declared unique.
BookConstraintsNoUnique(row) == row.author \in AuthorIds

\* Book.isbn unique=True; Book.author a non-null foreign key.
BookConstraintsOk(row) ==
    /\ \A b \in books : b.id # row.id => b.isbn # row.isbn
    /\ row.author \in AuthorIds

\* on_delete left without effect: no Book row follows its Author.
CascadeNothing(ids) == {}

\* A cascade that stops after the first Book row.
CascadeOneBook(ids) ==
    {b \in books : b.author \in ids /\ \A c \in books : c.author \in ids => b.id <= c.id}

\* on_delete=CASCADE: deleting Author rows deletes the Book rows that point at them.
CascadeBooks(ids) == {b \in books : b.author \in ids}

Max(x, y) == IF x >= y THEN x ELSE y


----------------------------------------------------------------------------
(* viewsets.py: SearchFilter and OrderingFilter *)

\* SearchFilter.get_search_terms: the `search` parameter split at blanks.
SearchTerms(search) == Split(search)

\* AuthorViewSet.search_fields
AuthorMatches(a, term) == IContains(a.name, term) \/ IContains(a.country, term)

\* search_fields without 'isbn'.
BookMatchesNoIsbn(b, term) ==
    IContains(b.title, term) \/ IContains(AuthorRow(b.author).name, term)

\* BookViewSet.search_fields
BookMatches(b, term) ==
    \/ IContains(b.title, term)
    \/ IContains(AuthorRow(b.author).name, term)
    \/ IContains(b.isbn, term)

\* SearchFilter.filter_queryset: every term must match one of the fields.
SearchAuthors(search) ==
    LET terms == SearchTerms(search)
    IN  {a \in authors : \A i \in DOMAIN terms : AuthorMatches(a, terms[i])}

SearchBooks(search) ==
    LET terms == SearchTerms(search)
    IN  {b \in books : \A i \in DOMAIN terms : BookMatches(b, terms[i])}

\* OrderingFilter: a requested field outside ordering_fields is dropped and
\* the view's `ordering` applies.
AuthorOrdering(ordering) ==
    IF ordering \in {"name", "-name", "birth_date", "-birth_date"} THEN ordering ELSE "name"

BookOrdering(ordering) ==
    IF ordering \in {"title", "-title", "published_date", "-published_date"}
    THEN ordering ELSE "title"

\* NULL birth dates sort lowest (NoDate is below every date).
AuthorLess(o, x, y) ==
    CASE o = "name" -> StrLess(x.name, y.name)
      [] o = "-name" -> StrLess(y.name, x.name)
      [] o = "birth_date" -> x.birth_date < y.birth_date
      [] o = "-birth_date" -> y.birth_date < x.birth_date

BookLess(o, x, y) ==
    CASE o = "title" -> StrLess(x.title, y.title)
      [] o = "-title" -> StrLess(y.title, x.title)
      [] o = "published_date" -> x.published_date < y.published_date
      [] o = "-published_date" -> y.published_date < x.published_date

\* The sequences a list request can return.
AuthorListings(search, ordering) ==
    UNION {{r \in [DOMAIN ord -> UNION {AuthorSerializer(a, books) : a \in authors}] :
                \A i \in DOMAIN ord : r[i] \in AuthorSerializer(ord[i], books)}
           : ord \in SortedBy(SearchAuthors(search),
                              LAMBDA x, y : AuthorLess(AuthorOrdering(ordering), x, y))}

BookListings(search, ordering) ==
    UNION {{r \in [DOMAIN ord -> UNION {BookSerializer(b, authors, books) : b \in books}] :
                \A i \in DOMAIN ord : r[i] \in BookSerializer(ord[i], authors, books)}
           : ord \in SortedBy(SearchBooks(search),
                              LAMBDA x, y : BookLess(BookOrdering(ordering), x, y))}

----------------------------------------------------------------------------
(* Responses *)

Response(op, req, status, error, errors, data) ==
    [op |-> op, req |-> req, status |-> status, error |-> error,
     errors |-> errors, data |-> data]

NoData == <<>>
Ok(op, req, status, data) == Response(op, req, status, "", {}, data)
NotFound(op, req) == Response(op, req, 404, "NotFound", {}, NoData)
Invalid(op, req, errors) == Response(op, req, 400, "ValidationError", errors, NoData)
Integrity(op, req) == Response(op, req, 500, "IntegrityError", {}, NoData)


----------------------------------------------------------------------------
(* The requests the model sends *)

LongIsbn == [i \in 1..(IsbnMaxLen + 1) |-> "1"]

AuthorPayloads ==
    { [name |-> <<"A">>],
      [name |-> <<"b", " ">>, birth_date |-> 1, country |-> <<"a">>, books |-> <<"z">>],
      [birth_date |-> 1, country |-> <<"a">>],
      [name |-> <<" ">>] }

BookPayloads ==
    UNION {{ [title |-> <<"a", " ", "b">>, author_id |-> a, published_date |-> 2,
              isbn |-> <<"1">>],
             [title |-> <<"b">>, author_id |-> a, published_date |-> 1,
              isbn |-> <<"2", " ">>] } : a \in 1..(MaxAuthorId + 1)}
    \cup { [title |-> <<"b">>, author_id |-> 1, published_date |-> 1,
            isbn |-> LongIsbn],
           [title |-> <<"a", " ", "b">>, published_date |-> 2, isbn |-> <<"1">>] }

Searches == {<<>>, <<"a">>, <<"1">>, <<"a", " ", "b">>, <<" ">>, <<"z">>}

Listings ==
    {[search |-> s, ordering |-> ""] : s \in Searches}
        \cup {[search |-> <<>>, ordering |-> o] :
                o \in {"-title", "published_date", "birth_date", "isbn"}}

AuthorKeys == 1..MaxAuthorId
BookKeys == 1..MaxBookId

----------------------------------------------------------------------------
(* viewsets.py: AuthorViewSet *)

NoSnapshot == [authors |-> {}, books |-> {}]

\* A request is served by the web process: the command's variables are not
\* its own.  The history records the tables the request found.
Served ==
    /\ UNCHANGED <<loader, inflight>>
    /\ before' = [authors |-> authors, books |-> books]

ListAuthors(q) ==
    /\ resp' \in {Ok("listAuthors", q, 200, r) : r \in AuthorListings(q.search, q.ordering)}
    /\ UNCHANGED store /\ Served

\* What retrieve can answer in the current state.
RetrieveAuthorResponses(id) ==
    IF id \notin AuthorIds
    THEN {NotFound("retrieveAuthor", [id |-> id])}
    ELSE {Ok("retrieveAuthor", [id |-> id], 200, s) : s \in AuthorSerializer(AuthorRow(id), books)}

RetrieveAuthor(id) ==
    /\ resp' \in RetrieveAuthorResponses(id)
    /\ UNCHANGED store /\ Served

\* perform_create run before is_valid: the row is written, then refused.
CreateAuthorUnvalidated(p) ==
    LET req == [payload |-> p]
        errs == AuthorErrors(p, FALSE)
        row == Override([id |-> authorSeq + 1, name |-> <<>>, birth_date |-> NoDate,
                         country |-> <<>>], AuthorData(p))
    IN  /\ authorSeq < MaxAuthorId
        /\ authors' = authors \cup {row}
        /\ authorSeq' = authorSeq + 1
        /\ UNCHANGED <<books, bookSeq>>
        /\ IF errs # {}
           THEN resp' = Invalid("createAuthor", req, errs)
           ELSE resp' \in {Ok("createAuthor", req, 201, s) : s \in AuthorSerializer(row, books)}
        /\ Served

CreateAuthor(p) ==
    LET req == [payload |-> p]
        errs == AuthorErrors(p, FALSE)
        row == Override([id |-> authorSeq + 1, name |-> <<>>, birth_date |-> NoDate,
                         country |-> <<>>], AuthorData(p))
    IN  /\ \/ /\ errs # {}
              /\ resp' = Invalid("createAuthor", req, errs)
              /\ UNCHANGED store
           \/ /\ errs = {}
              /\ authorSeq < MaxAuthorId
              /\ authors' = authors \cup {row}
              /\ authorSeq' = authorSeq + 1
              /\ UNCHANGED <<books, bookSeq>>
              /\ resp' \in {Ok("createAuthor", req, 201, s) : s \in AuthorSerializer(row, books)}
        /\ Served

AuthorUpdate(op, id, p, partial) ==
    LET req == [id |-> id, payload |-> p]
        errs == AuthorErrors(p, partial)
    IN  /\ IF id \notin AuthorIds
           THEN /\ resp' = NotFound(op, req)
                /\ UNCHANGED store
           ELSE IF errs # {}
           THEN /\ resp' = Invalid(op, req, errs)
                /\ UNCHANGED store
           ELSE LET row == Override(AuthorRow(id), AuthorData(p))
                IN  /\ authors' = (authors \ {AuthorRow(id)}) \cup {row}
                    /\ UNCHANGED <<books, authorSeq, bookSeq>>
                    /\ resp' \in {Ok(op, req, 200, s) : s \in AuthorSerializer(row, books)}
        /\ Served

UpdateAuthor(id, p) == AuthorUpdate("updateAuthor", id, p, FALSE)
PartialUpdateAuthor(id, p) == AuthorUpdate("partialUpdateAuthor", id, p, TRUE)

DestroyAuthor(id) ==
    LET req == [id |-> id]
    IN  /\ IF id \notin AuthorIds
           THEN /\ resp' = NotFound("destroyAuthor", req)
                /\ UNCHANGED store
           ELSE /\ books' = books \ CascadeBooks({id})
                /\ authors' = authors \ {AuthorRow(id)}
                /\ UNCHANGED <<authorSeq, bookSeq>>
                /\ resp' = Ok("destroyAuthor", req, 204, NoData)
        /\ Served

----------------------------------------------------------------------------
(* viewsets.py: BookViewSet *)

ListBooks(q) ==
    /\ resp' \in {Ok("listBooks", q, 200, r) : r \in BookListings(q.search, q.ordering)}
    /\ UNCHANGED store /\ Served

RetrieveBookResponses(id) ==
    IF id \notin BookIds
    THEN {NotFound("retrieveBook", [id |-> id])}
    ELSE {Ok("retrieveBook", [id |-> id], 200, s) : s \in BookSerializer(BookRow(id), authors, books)}

RetrieveBook(id) ==
    /\ resp' \in RetrieveBookResponses(id)
    /\ UNCHANGED store /\ Served

CreateBook(p) ==
    LET req == [payload |-> p]
        errs == BookErrors(p, FALSE, 0)
        row == Override([id |-> bookSeq + 1], BookData(p))
    IN  /\ IF errs # {}
           THEN /\ resp' = Invalid("createBook", req, errs)
                /\ UNCHANGED store
           ELSE IF ~BookConstraintsOk(row)
           THEN /\ resp' = Integrity("createBook", req)
                /\ UNCHANGED store
           ELSE /\ bookSeq < MaxBookId
                /\ books' = books \cup {row}
                /\ bookSeq' = bookSeq + 1
                /\ UNCHANGED <<authors, authorSeq>>
                /\ resp' \in {Ok("createBook", req, 201, s) :
                              s \in BookSerializer(row, authors, books \cup {row})}
        /\ Served

BookUpdate(op, id, p, partial) ==
    LET req == [id |-> id, payload |-> p]
        errs == BookErrors(p, partial, id)
    IN  /\ IF id \notin BookIds
           THEN /\ resp' = NotFound(op, req)
                /\ UNCHANGED store
           ELSE IF errs # {}
           THEN /\ resp' = Invalid(op, req, errs)
                /\ UNCHANGED store
           ELSE LET row == Override(BookRow(id), BookData(p))
                IN  IF ~BookConstraintsOk(row)
                    THEN /\ resp' = Integrity(op, req)
                         /\ UNCHANGED store
                    ELSE /\ books' = (books \ {BookRow(id)}) \cup {row}
                         /\ UNCHANGED <<authors, authorSeq, bookSeq>>
                         /\ resp' \in {Ok(op, req, 200, s) :
                                       s \in BookSerializer(row, authors,
                                                (books \ {BookRow(id)}) \cup {row})}
        /\ Served

UpdateBook(id, p) == BookUpdate("updateBook", id, p, FALSE)
PartialUpdateBook(id, p) == BookUpdate("partialUpdateBook", id, p, TRUE)

\* A destroy that answers 204 whether or not the row is there.
DestroyBookIdempotent(id) ==
    /\ books' = {b \in books : b.id # id}
    /\ UNCHANGED <<authors, authorSeq, bookSeq>>
    /\ resp' = Ok("destroyBook", [id |-> id], 204, NoData)
    /\ Served

DestroyBook(id) ==
    LET req == [id |-> id]
    IN  /\ IF id \notin BookIds
           THEN /\ resp' = NotFound("destroyBook", req)
                /\ UNCHANGED store
           ELSE /\ books' = books \ {BookRow(id)}
                /\ UNCHANGED <<authors, authorSeq, bookSeq>>
                /\ resp' = Ok("destroyBook", req, 204, NoData)
        /\ Served


----------------------------------------------------------------------------
(* Between two operations the caller reads the outcome of the first.       *)

NoResp == Ok("none", NoData, 0, NoData)

\* Nothing is running and no response is waiting to be read.
Idle == pc = "idle" /\ inflight = {} /\ resp = NoResp

\* The caller takes the response (or the command's exit status).
Deliver ==
    /\ pc = "idle"
    /\ inflight = {}
    /\ resp # NoResp
    /\ resp' = NoResp
    /\ before' = NoSnapshot
    /\ UNCHANGED <<store, loader, inflight>>

----------------------------------------------------------------------------
(* management/commands/fetch_data.py: Command.handle, one store statement  *)
(* per step.  The command's outcome is resp: status 0 once it returned,    *)
(* 1 once an exception ended it; data is the last line written to stdout.  *)

AuthorRecord(id, name, birth, country) ==
    [id |-> id, name |-> name, birth_date |-> birth, country |-> country]

BookRecord(title, author, published, isbn) ==
    [title |-> title, author_id |-> author, published_date |-> published, isbn |-> isbn]

NoFile == [authors |-> <<>>, books |-> <<>>]

\* The documents data/sample_data.json is drawn from.
Files ==
    { [authors |-> <<AuthorRecord(1, <<"A">>, NoDate, <<>>),
                     AuthorRecord(2, <<"b">>, 1, <<"a">>)>>,
       books |-> <<BookRecord(<<"b">>, 2, 1, <<"2">>),
                   BookRecord(<<"a", " ", "b">>, 1, 2, <<"1">>)>>],
      [authors |-> <<AuthorRecord(1, <<"A">>, NoDate, <<>>)>>,
       books |-> <<BookRecord(<<"b">>, 1, 1, <<"2">>)>>],
      [authors |-> <<AuthorRecord(2, <<"b">>, 1, <<"a">>)>>,
       books |-> <<BookRecord(<<"b">>, 1, 1, <<"2">>)>>],
      [authors |-> <<AuthorRecord(1, <<"A">>, NoDate, <<>>)>>,
       books |-> <<BookRecord(<<"b">>, 1, 1, <<"2">>),
                   BookRecord(<<"a", " ", "b">>, 1, 2, <<"2">>)>>],
      [authors |-> <<AuthorRecord(1, <<"A">>, NoDate, <<>>),
                     AuthorRecord(1, <<"b">>, 1, <<"a">>)>>,
       books |-> <<>>],
      NoFile }

Running(line) == Ok("fetch_data", file, 0, line)
\* The traceback names the loop and the item it was at.
Crashed(error) == Response("fetch_data", file, 1, error, {}, [at |-> pc, item |-> idx])

\* json.load, then 'Clearing existing data...'
LoadStart(f) ==
    /\ Idle
    /\ bookSeq + Len(f.books) <= MaxBookId
    /\ file' = f
    /\ created' = {}
    /\ idx' = 1
    /\ before' = [authors |-> authors, books |-> books]
    /\ pc' = "clearBooks"
    /\ resp' = Ok("fetch_data", f, 0, "Clearing existing data...")
    /\ UNCHANGED <<store, inflight>>

\* Book.objects.all().delete()
ClearBooks ==
    /\ pc = "clearBooks"
    /\ books' = {}
    /\ pc' = "clearAuthors"
    /\ UNCHANGED <<authors, authorSeq, bookSeq, resp, file, created, idx, before, inflight>>

\* The command without its Author.objects.all().delete().
ClearAuthorsSkipped ==
    /\ pc = "clearAuthors"
    /\ pc' = "authors"
    /\ resp' = Running("Creating authors...")
    /\ UNCHANGED <<store, file, created, idx, before, inflight>>

\* Author.objects.all().delete(), then 'Creating authors...'
ClearAuthors ==
    /\ pc = "clearAuthors"
    /\ books' = books \ CascadeBooks(AuthorIds)
    /\ authors' = {}
    /\ pc' = "authors"
    /\ resp' = Running("Creating authors...")
    /\ UNCHANGED <<authorSeq, bookSeq, file, created, idx, before, inflight>>

Finish(r) ==
    /\ pc' = "idle"
    /\ file' = NoFile
    /\ created' = {}
    /\ idx' = 1
    /\ resp' = r

\* One turn of the authors loop: Author.objects.create(id=..., ...)
LoadAuthor ==
    /\ pc = "authors"
    /\ idx <= Len(file.authors)
    /\ LET row == file.authors[idx]
       IN  IF row.id \in AuthorIds
           THEN /\ Finish(Crashed("IntegrityError"))
                /\ UNCHANGED store
           ELSE /\ authors' = authors \cup {row}
                /\ authorSeq' = Max(authorSeq, row.id)
                /\ created' = created \cup {row.id}
                /\ idx' = idx + 1
                /\ resp' = Running("Created author")
                /\ UNCHANGED <<books, bookSeq, pc, file>>
    /\ UNCHANGED <<before, inflight>>

\* The authors loop is over: 'Creating books...'
AuthorsLoaded ==
    /\ pc = "authors"
    /\ idx > Len(file.authors)
    /\ pc' = "books"
    /\ idx' = 1
    /\ resp' = Running("Creating books...")
    /\ UNCHANGED <<store, file, created, before, inflight>>

\* One turn of the books loop: Book.objects.create(author=authors[...], ...)
LoadBook ==
    /\ pc = "books"
    /\ idx <= Len(file.books)
    /\ LET item == file.books[idx]
           row == [id |-> bookSeq + 1, title |-> item.title, author |-> item.author_id,
                   published_date |-> item.published_date, isbn |-> item.isbn]
       IN  IF item.author_id \notin created
           THEN /\ Finish(Crashed("KeyError"))
                /\ UNCHANGED store
           ELSE IF ~BookConstraintsOk(row)
           THEN /\ Finish(Crashed("IntegrityError"))
                /\ UNCHANGED store
           ELSE /\ books' = books \cup {row}
                /\ bookSeq' = bookSeq + 1
                /\ idx' = idx + 1
                /\ resp' = Running("Created book")
                /\ UNCHANGED <<authors, authorSeq, pc, file, created>>
    /\ UNCHANGED <<before, inflight>>

\* The books loop is over: 'Successfully loaded ...'
LoadDone ==
    /\ pc = "books"
    /\ idx > Len(file.books)
    /\ Finish(Ok("fetch_data", file, 0, "Successfully loaded"))
    /\ UNCHANGED <<store, before, inflight>>

----------------------------------------------------------------------------
(* The catalog, one request or one command at a time *)

Init ==
    /\ authors = {}
    /\ books = {}
    /\ authorSeq = 0
    /\ bookSeq = 0
    /\ resp = NoResp
    /\ pc = "idle"
    /\ file = NoFile
    /\ created = {}
    /\ idx = 1
    /\ before = NoSnapshot
    /\ inflight = {}

Next ==
    \/ Deliver
    \/ \E f \in Files : LoadStart(f)
    \/ ClearBooks
    \/ ClearAuthors
    \/ LoadAuthor
    \/ AuthorsLoaded
    \/ LoadBook
    \/ LoadDone
    \/ \E q \in Listings : Idle /\ ListAuthors(q)
    \/ \E id \in AuthorKeys : Idle /\ RetrieveAuthor(id)
    \/ \E p \in AuthorPayloads : Idle /\ CreateAuthor(p)
    \/ \E id \in AuthorKeys, p \in AuthorPayloads : Idle /\ UpdateAuthor(id, p)
    \/ \E id \in AuthorKeys, p \in AuthorPayloads : Idle /\ PartialUpdateAuthor(id, p)
    \/ \E id \in AuthorKeys : Idle /\ DestroyAuthor(id)
    \/ \E q \in Listings : Idle /\ ListBooks(q)
    \/ \E id \in BookKeys : Idle /\ RetrieveBook(id)
    \/ \E p \in BookPayloads : Idle /\ CreateBook(p)
    \/ \E id \in BookKeys, p \in BookPayloads : Idle /\ UpdateBook(id, p)
    \/ \E id \in BookKeys, p \in BookPayloads : Idle /\ PartialUpdateBook(id, p)
    \/ \E id \in BookKeys : Idle /\ DestroyBook(id)

Spec == Init /\ [][Next]_vars


----------------------------------------------------------------------------
(* Two web workers serving POST /api/books at once.  CreateModelMixin      *)
(* validates (the serializer's queries) and then saves (the INSERT); the   *)
(* store runs each statement on its own, so the statements of two requests *)
(* interleave.  An entry of inflight is one request: its worker, how far   *)
(* it got, its payload, whether its isbn was free when it arrived, and     *)
(* its response once it has one.                                           *)

Workers == {1, 2}

Entry(w) == CHOOSE e \in inflight : e.worker = w

Pending == {e \in inflight : e.phase # "done"}

PayloadIsbn(p) == IF Has(p, "isbn") THEN Strip(p.isbn) ELSE <<>>

Receive(w, p) ==
    /\ pc = "idle"
    /\ resp = NoResp
    /\ \A e \in inflight : e.worker # w
    /\ bookSeq + Cardinality(Pending) < MaxBookId
    /\ inflight' = inflight \cup
          {[worker |-> w, phase |-> "received", payload |-> p,
            fresh |-> \A b \in books : b.isbn # PayloadIsbn(p),
            result |-> NoResp]}
    /\ before' = IF inflight = {} THEN [authors |-> authors, books |-> books] ELSE before
    /\ UNCHANGED <<store, resp, loader>>

\* serializer.is_valid(raise_exception=True)
Validate(w) ==
    /\ \E e \in inflight : e.worker = w /\ e.phase = "received"
    /\ LET e == Entry(w)
           errs == BookErrors(e.payload, FALSE, 0)
       IN  inflight' = (inflight \ {e}) \cup
              {IF errs # {}
               THEN [e EXCEPT !.phase = "done",
                              !.result = Invalid("createBook", [payload |-> e.payload], errs)]
               ELSE [e EXCEPT !.phase = "validated"]}
    /\ UNCHANGED <<store, resp, loader, before>>

\* perform_create: serializer.save(), then the 201 response
Write(w) ==
    /\ \E e \in inflight : e.worker = w /\ e.phase = "validated"
    /\ LET e == Entry(w)
           req == [payload |-> e.payload]
           row == Override([id |-> bookSeq + 1], BookData(e.payload))
       IN  IF ~BookConstraintsOk(row)
           THEN /\ inflight' = (inflight \ {e}) \cup
                      {[e EXCEPT !.phase = "done", !.result = Integrity("createBook", req)]}
                /\ UNCHANGED store
           ELSE /\ books' = books \cup {row}
                /\ bookSeq' = bookSeq + 1
                /\ UNCHANGED <<authors, authorSeq>>
                /\ inflight' \in
                      {(inflight \ {e}) \cup
                          {[e EXCEPT !.phase = "done", !.result = Ok("createBook", req, 201, s)]}
                        : s \in BookSerializer(row, authors, books \cup {row})}
    /\ UNCHANGED <<resp, loader, before>>

\* Both callers have their responses.
Collect ==
    /\ inflight # {}
    /\ Pending = {}
    /\ inflight' = {}
    /\ before' = NoSnapshot
    /\ UNCHANGED <<store, resp, loader>>

NextConc ==
    \/ Deliver
    \/ \E p \in AuthorPayloads : Idle /\ CreateAuthor(p)
    \/ \E id \in AuthorKeys : Idle /\ DestroyAuthor(id)
    \/ \E p \in BookPayloads : Idle /\ CreateBook(p)
    \/ \E id \in BookKeys : Idle /\ DestroyBook(id)
    \/ \E w \in Workers, p \in BookPayloads : Receive(w, p)
    \/ \E w \in Workers : Validate(w)
    \/ \E w \in Workers : Write(w)
    \/ Collect

SpecConc == Init /\ [][NextConc]_vars


----------------------------------------------------------------------------
(* Properties.  In a state where resp holds the outcome of an operation,   *)
(* `before` holds the tables that operation found and authors, books hold  *)
(* the tables it left.                                                     *)

BeforeAuthorIds == {a.id : a \in before.authors}
BeforeBookIds == {b.id : b \in before.books}
StoreAsBefore == authors = before.authors /\ books = before.books

AuthorWrites == {"createAuthor", "updateAuthor", "partialUpdateAuthor", "destroyAuthor"}
BookWrites == {"createBook", "updateBook", "partialUpdateBook", "destroyBook"}
ByKey ==
    {"retrieveAuthor", "updateAuthor", "partialUpdateAuthor", "destroyAuthor",
     "retrieveBook", "updateBook", "partialUpdateBook", "destroyBook"}
OnAuthor(op) == op \in AuthorWrites \cup {"retrieveAuthor", "listAuthors"}

\* C1: in every reachable state, the steps of a running fetch_data included,
\* the author of every stored Book is a stored Author.
C1_ReferentialIntegrity == \A b \in books : \E a \in authors : a.id = b.author

\* C1 witness: fetch_data is in its books loop and has inserted a Book, in
\* a catalog that held Books when the command started.
C1_Witness == pc = "books" /\ books # {} /\ before.books # {}

\* C2: destroy of an existing Author answers 204 and removes exactly that
\* Author and the Books whose author it is, every other row staying as it
\* was; each removed Book is then NotFound on retrieve; and no state holds a
\* Book whose Author is gone.
C2_DeleteCascades ==
    /\ C1_ReferentialIntegrity
    /\ (resp.op = "destroyAuthor" /\ resp.req.id \in BeforeAuthorIds) =>
          /\ resp.status = 204
          /\ authors = {a \in before.authors : a.id # resp.req.id}
          /\ books = {b \in before.books : b.author # resp.req.id}
          /\ \A b \in before.books :
                b.author = resp.req.id =>
                    \A r \in RetrieveBookResponses(b.id) : r.status = 404

\* C2 witness: an Author with a Book was destroyed while another Author's
\* Book stayed.
C2_Witness ==
    /\ resp.op = "destroyAuthor"
    /\ resp.status = 204
    /\ \E b \in before.books : b.author = resp.req.id
    /\ books # {}

IsbnUnique == \A b, c \in books : b.isbn = c.isbn => b = c

CreateCollides ==
    /\ resp.op = "createBook"
    /\ Has(resp.req.payload, "isbn")
    /\ \E b \in before.books : b.isbn = resp.req.payload.isbn

\* C3 as claimed: no two stored Books share an isbn, and a Book create whose
\* isbn is that of a stored Book fails with IntegrityError and adds nothing.
C3_AsClaimed ==
    /\ IsbnUnique
    /\ CreateCollides => (resp.error = "IntegrityError" /\ StoreAsBefore)

\* The item fetch_data was creating when it crashed in its books loop.
CrashedItem == resp.req.books[resp.data.item]

\* C3 amended: no two stored Books share an isbn; a Book create request whose
\* isbn is that of a stored Book is refused by the serializer with a
\* ValidationError (400, isbn: unique) and adds nothing; IntegrityError is
\* what the store raises when a create that no serializer checked (the one
\* of fetch_data) collides, and that create adds nothing either.
C3_UniqueIsbn ==
    /\ IsbnUnique
    /\ CreateCollides =>
          /\ resp.status = 400
          /\ resp.error = "ValidationError"
          /\ <<"isbn", "unique">> \in resp.errors
          /\ StoreAsBefore
    /\ (/\ resp.op = "fetch_data"
        /\ resp.status = 1
        /\ resp.data.at = "books"
        /\ CrashedItem.author_id \in AuthorIds
        /\ \E b \in books : b.isbn = CrashedItem.isbn) =>
          /\ resp.error = "IntegrityError"
          /\ Cardinality(books) = resp.data.item - 1

\* C3 witness: a create request met a stored Book with its isbn.
C3_Witness == CreateCollides /\ resp.status = 400

UnresolvedAuthor ==
    /\ resp.op \in {"createBook", "updateBook", "partialUpdateBook"}
    /\ resp.op # "createBook" => resp.req.id \in BeforeBookIds
    /\ Has(resp.req.payload, "author_id")
    /\ resp.req.payload.author_id \notin BeforeAuthorIds

\* C4: a create of a Book, or an update of a stored Book, whose author_id is
\* the id of no stored Author is answered 400 with author_id reported as not
\* existing, and the tables are as they were.
C4_UnresolvedAuthor ==
    UnresolvedAuthor =>
        /\ resp.status = 400
        /\ <<"author_id", "does_not_exist">> \in resp.errors
        /\ StoreAsBefore

\* C4 witness: an update of a stored Book named an Author that is not stored.
C4_Witness == UnresolvedAuthor /\ resp.op = "updateBook" /\ resp.status = 400


RaceOf(e, f) ==
    /\ e \in inflight /\ f \in inflight
    /\ e.worker < f.worker
    /\ e.phase = "done" /\ f.phase = "done"
    /\ e.fresh /\ f.fresh
    /\ Has(e.payload, "isbn") /\ Has(f.payload, "isbn")
    /\ PayloadIsbn(e.payload) = PayloadIsbn(f.payload)
    /\ BookErrors(e.payload, FALSE, 0) \subseteq {<<"isbn", "unique">>}
    /\ BookErrors(f.payload, FALSE, 0) \subseteq {<<"isbn", "unique">>}

UniquenessError(r) ==
    \/ r.error = "IntegrityError"
    \/ r.status = 400 /\ r.errors = {<<"isbn", "unique">>}

\* C5: two create requests for the same isbn, free when both arrived and
\* otherwise valid, whatever the order of their validate and write steps:
\* once both are answered one is a 201 and the other a uniqueness error, the
\* Book table gained exactly one row and it carries that isbn; and no state
\* holds two Books with one isbn.
C5_OneWinner ==
    /\ IsbnUnique
    /\ \A e, f \in inflight :
          RaceOf(e, f) =>
              /\ \/ e.result.status = 201 /\ UniquenessError(f.result)
                 \/ f.result.status = 201 /\ UniquenessError(e.result)
              /\ before.books \subseteq books
              /\ Cardinality(books) = Cardinality(before.books) + 1
              /\ \A b \in books \ before.books : b.isbn = PayloadIsbn(e.payload)
              /\ authors = before.authors

\* C5 witness: both requests passed validation, one INSERT went through and
\* the store refused the other.
C5_Witness ==
    \E e, f \in inflight :
        /\ RaceOf(e, f) \/ RaceOf(f, e)
        /\ e.result.status = 201
        /\ f.result.error = "IntegrityError"

FileAuthors(f) == {f.authors[i] : i \in DOMAIN f.authors}
FileAuthorIds(f) == {f.authors[i].id : i \in DOMAIN f.authors}
BookFields(b) ==
    [title |-> b.title, author_id |-> b.author, published_date |-> b.published_date,
     isbn |-> b.isbn]
StoredBookFields == {BookFields(b) : b \in books}
Ended == resp.op = "fetch_data" /\ pc = "idle"

\* C6: fetch_data first empties the Book table, then the Author table, then
\* inserts the file's authors in order, then the file's books in order; when
\* it returns, the Author table is exactly the file's authors under the
\* file's ids, the Book table exactly the file's books under new ids, each
\* with the author its author_id names; and it never returns normally from a
\* file one of whose books names an author_id that is no author of the file.
C6_LoaderReplaces ==
    /\ pc = "clearAuthors" => books = {}
    /\ pc = "authors" =>
          /\ books = {}
          /\ authors = {file.authors[i] : i \in 1..(idx - 1)}
    /\ pc = "books" =>
          /\ authors = FileAuthors(file)
          /\ StoredBookFields = {file.books[i] : i \in 1..(idx - 1)}
          /\ Cardinality(books) = idx - 1
    /\ (Ended /\ resp.status = 0) =>
          /\ authors = FileAuthors(resp.req)
          /\ Cardinality(authors) = Len(resp.req.authors)
          /\ StoredBookFields = {resp.req.books[i] : i \in DOMAIN resp.req.books}
          /\ Cardinality(books) = Len(resp.req.books)
          /\ \A b \in books : b.id \notin BeforeBookIds /\ b.author \in FileAuthorIds(resp.req)
    /\ (Ended /\ \E i \in DOMAIN resp.req.books :
                    resp.req.books[i].author_id \notin FileAuthorIds(resp.req)) =>
          resp.status = 1

\* C6 witness: a load of a file with books returned, over a catalog that
\* held Authors and Books.
C6_Witness ==
    /\ Ended /\ resp.status = 0
    /\ resp.req.books # <<>>
    /\ before.authors # {} /\ before.books # {}

\* A second case of C6: the load crashed on a book whose author_id is the id
\* of an Author the catalog held before, and of no author of the file.
C6_KeyErrorCase ==
    /\ Ended /\ resp.status = 1 /\ resp.error = "KeyError"
    /\ CrashedItem.author_id \in BeforeAuthorIds

ApiFailed == resp.op # "fetch_data" /\ resp.status \in {400, 404, 500}
LoadFailed == Ended /\ resp.status = 1

\* C7 as claimed: whenever an operation fails, the bulk load included, the
\* tables are what they were before it started.
C7_AsClaimed == (ApiFailed \/ LoadFailed) => StoreAsBefore

\* C7 amended: whenever a create, update, partial update or delete fails the
\* tables are what they were before it; a bulk load that fails is not undone:
\* the tables hold the file's records inserted before the failing one and
\* nothing of what they held before.
C7_FailureLeavesStore ==
    /\ ApiFailed => StoreAsBefore
    /\ LoadFailed =>
          IF resp.data.at = "authors"
          THEN /\ authors = {resp.req.authors[i] : i \in 1..(resp.data.item - 1)}
               /\ books = {}
          ELSE /\ authors = FileAuthors(resp.req)
               /\ StoredBookFields = {resp.req.books[i] : i \in 1..(resp.data.item - 1)}
               /\ \A b \in books : b.id \notin BeforeBookIds

\* C7 witness: a load crashed after it had emptied a catalog that held rows.
C7_Witness == LoadFailed /\ before.books # {} /\ ~StoreAsBefore

\* A second case of C7: a request was refused over a catalog that holds rows.
C7_ApiCase == ApiFailed /\ resp.status = 400 /\ books # {}


Rows == {resp.data[i] : i \in DOMAIN resp.data}
ListedIds == {resp.data[i].id : i \in DOMAIN resp.data}
NameOfAuthor(id) == (CHOOSE a \in authors : a.id = id).name

\* s occurs, whatever the case, in the Book's title, its author's name or
\* its isbn.
Occurs(b, s) ==
    \/ IContains(b.title, s)
    \/ IContains(NameOfAuthor(b.author), s)
    \/ IContains(b.isbn, s)

\* The words of s: its maximal stretches without a blank.
Words(s) ==
    {SubSeq(s, i, j) : <<i, j>> \in
        {ij \in (1..Len(s)) \X (1..Len(s)) :
            /\ ij[1] <= ij[2]
            /\ \A k \in ij[1]..ij[2] : s[k] # " "
            /\ (ij[1] = 1 \/ s[ij[1] - 1] = " ")
            /\ (ij[2] = Len(s) \/ s[ij[2] + 1] = " ")}}

\* What a Book listing always is: the store untouched, each listed row a
\* stored Book shown once with its own fields, in ascending title order.
ListedByTitle ==
    /\ StoreAsBefore
    /\ resp.status = 200
    /\ Len(resp.data) = Cardinality(ListedIds)
    /\ \A r \in Rows : \E b \in books :
          /\ b.id = r.id /\ b.title = r.title /\ b.isbn = r.isbn
          /\ b.published_date = r.published_date /\ b.author = r.author.id
    /\ \A i, j \in DOMAIN resp.data :
          i < j => ~StrLess(resp.data[j].title, resp.data[i].title)

DefaultListing == resp.op = "listBooks" /\ resp.req.ordering = ""

Blank(s) == \A k \in DOMAIN s : s[k] = " "

C8_CaseInsensitive ==
    /\ DefaultListing
    /\ resp.req.search = <<"a">>
    /\ \E r \in Rows : r.author.name = <<"A">> /\ ~IContains(r.title, <<"a">>)

SummaryOf(b) ==
    [id |-> b.id, title |-> b.title, published_date |-> b.published_date, isbn |-> b.isbn]

\* d is the Author shape of row a as the tables stand: a's four fields and
\* one summary for each Book of a, for no other Book.
IsAuthorShape(d, a) ==
    /\ DOMAIN d = {"id", "name", "birth_date", "country", "books"}
    /\ d.id = a.id /\ d.name = a.name /\ d.birth_date = a.birth_date
    /\ d.country = a.country
    /\ {d.books[i] : i \in DOMAIN d.books} = {SummaryOf(b) : b \in {c \in books : c.author = a.id}}
    /\ Len(d.books) = Cardinality({c \in books : c.author = a.id})

ReadShapes ==
    /\ (resp.op = "retrieveAuthor" /\ resp.status = 200) =>
          \E a \in authors : a.id = resp.req.id /\ IsAuthorShape(resp.data, a)
    /\ (resp.op = "retrieveBook" /\ resp.status = 200) =>
          \E b \in books :
              /\ b.id = resp.req.id
              /\ DOMAIN resp.data = {"id", "title", "author", "published_date", "isbn"}
              /\ SummaryOf(b) = SummaryOf(resp.data)
              /\ \E a \in authors : a.id = b.author /\ IsAuthorShape(resp.data.author, a)

AuthorCreated == resp.op = "createAuthor" /\ resp.status = 201

Sent(p, k, default) == IF Has(p, k) THEN p[k] ELSE default
SentText(p, k) == IF Has(p, k) THEN Strip(p[k]) ELSE <<>>

\* The `books` key of an Author write payload changes nothing.
BooksKeyIgnored ==
    (resp.op \in AuthorWrites /\ resp.op # "destroyAuthor" /\ resp.status \in {200, 201}) =>
        /\ books = before.books
        /\ \E a \in authors : a.id = resp.data.id /\ IsAuthorShape(resp.data, a)

\* C9 as claimed: the read shapes agree with the tables, and an Author just
\* created is retrieved with the fields as submitted, a new id and no books.
C9_AsClaimed ==
    /\ ReadShapes
    /\ BooksKeyIgnored
    /\ AuthorCreated =>
          /\ resp.data.id \notin BeforeAuthorIds
          /\ \A r \in RetrieveAuthorResponses(resp.data.id) :
                /\ r.status = 200
                /\ r.data.id = resp.data.id
                /\ r.data.name = resp.req.payload.name
                /\ r.data.birth_date = Sent(resp.req.payload, "birth_date", NoDate)
                /\ r.data.country = Sent(resp.req.payload, "country", <<>>)
                /\ r.data.books = <<>>

\* C9 amended: the read shapes agree with the tables, and an Author just
\* created is retrieved with the fields as submitted once the blanks around
\* name and country are stripped, a new id and no books.
C9_ReadShapes ==
    /\ ReadShapes
    /\ BooksKeyIgnored
    /\ AuthorCreated =>
          /\ resp.data.id \notin BeforeAuthorIds
          /\ \A r \in RetrieveAuthorResponses(resp.data.id) :
                /\ r.status = 200
                /\ r.data.id = resp.data.id
                /\ r.data.name = SentText(resp.req.payload, "name")
                /\ r.data.birth_date = Sent(resp.req.payload, "birth_date", NoDate)
                /\ r.data.country = SentText(resp.req.payload, "country")
                /\ r.data.books = <<>>

\* C9 witness: an Author was created from a payload with a blank after the
\* name and a `books` key, in a catalog that holds Books.
C9_Witness ==
    /\ AuthorCreated
    /\ Has(resp.req.payload, "books")
    /\ resp.req.payload.name # Strip(resp.req.payload.name)
    /\ books # {}

\* A second case of C9: a Book was retrieved whose Author has another Book.
C9_NestedCase ==
    /\ resp.op = "retrieveBook" /\ resp.status = 200
    /\ Len(resp.data.author.books) = 2

MissingKey ==
    /\ resp.op \in ByKey
    /\ resp.req.id \notin (IF OnAuthor(resp.op) THEN BeforeAuthorIds ELSE BeforeBookIds)

\* C10: retrieve, update, partial update and destroy of an Author or Book id
\* that is not stored answer 404 and leave the tables as they were; a list
\* always answers 200, with the empty sequence when the search matches no row.
C10_NotFound ==
    /\ MissingKey => (resp.status = 404 /\ resp.error = "NotFound" /\ StoreAsBefore)
    /\ resp.op \in {"listAuthors", "listBooks"} => (resp.status = 200 /\ StoreAsBefore)
    /\ (resp.op = "listBooks" /\
            \A b \in books : \E w \in Words(resp.req.search) : ~Occurs(b, w)) =>
          resp.data = <<>>
    /\ (resp.op = "listAuthors" /\
            \A a \in authors : \E w \in Words(resp.req.search) :
                ~(IContains(a.name, w) \/ IContains(a.country, w))) =>
          resp.data = <<>>

\* C10 witness: an update of a Book id that was handed out once and is gone,
\* in a catalog that still holds a Book.
C10_Witness ==
    /\ MissingKey
    /\ resp.op = "partialUpdateBook"
    /\ resp.req.id <= bookSeq
    /\ books # {}

\* A second case of C10: a search that matches nothing in a catalog with Books.
C10_EmptyList == resp.op = "listBooks" /\ books # {} /\ resp.data = <<>>

====
